---- MODULE Spec2Model ----
(***************************************************************************)
(* Model of shape2seq/batch_parser.py: the two batch parsers               *)
(* (SimpleBatchParser, FullSequenceBatchParser), their crop functions, the *)
(* lexical caption scorer score_cap_against_world_oneshape and the         *)
(* semantic-parse evaluator semparse_evaluate.                             *)
(*                                                                         *)
(* Python lists are sequences; a Python index i is position i + 1.         *)
(* Vocabularies are functions from words to ids.  Agreement scores are     *)
(* counted in tenths (10 is the float 1.0).                                *)
(***************************************************************************)
EXTENDS Integers, Sequences, FiniteSets, TLC

VARIABLES
    parser,      \* the batch parser object, [kind |-> "none"] before/without construction
    args,        \* the arguments of the constructor call that was made
    batch_fn,    \* crop_fn captured by get_batch_parser, "none" before
    semparser,   \* TRUE once build_semparser has returned semparse_evaluate
    pc,          \* "main", a position inside semparse_evaluate, or "raised"
    call,        \* the call being made or last returned, with its arguments
    frame,       \* the locals of the running semparse_evaluate call
    loop,        \* the locals of the evaluation loop of test_simple_network.py
    result       \* the value returned by the last call (or the fault that escaped)

vars == <<parser, args, batch_fn, semparser, pc, call, frame, loop, result>>

-----------------------------------------------------------------------------
(* Bounds of the model. *)

\* longest inferred caption (token ids) handed to the scorer
MaxInfLen == 2
\* widest raw caption row handed to a crop function
MaxRowLen == 5
\* most candidate parses the external parser returns
MaxParses == 3
\* most logical-form candidates the external analyzer returns
MaxAnalyses == 2
\* most images the evaluation loop is run for (num_imgs)
MaxImgs == 3

\* words a raw caption row is drawn from
RowWords == {"", "red", "square"}
\* agreement scores the external scorer may return, in tenths
Scores == {0, 5, 10}
\* target ids the decoder emits in the evaluation loop: UNKNOWN, </S> and the
\* first content word of the target vocabulary
DecoderIds == {0, 2, 3}
\* raw captions behind the reference captions of the evaluation loop
EvalRowWords == {<<"a", "a", "a", "blue", "circle">>, <<"a", "a", "a", "red", "square">>}
\* perplexities the model reports for a batch, as whole numbers
PerplexityValues == {7}
\* batch_type arguments tried, one of them unknown
BatchTypes == {"shape", "color", "shape_color", "standard", "caption"}
\* padding_token arguments tried: in the source vocabulary, in neither
\* vocabulary, and the end token (not in the source vocabulary)
PaddingTokens == {"", "<PAD>", "</S>"}

-----------------------------------------------------------------------------
(* Helpers. *)

Range(s) == {s[i] : i \in 1..Len(s)}

SeqsUpTo(S, n) == UNION {[1..k -> S] : k \in 0..n}

\* {v: i for i, v in enumerate(words)}
Enumerate(words) ==
    [w \in Range(words) |->
        (CHOOSE i \in 1..Len(words) :
            words[i] = w /\ \A j \in (i+1)..Len(words) : words[j] # w) - 1]

\* Python slices row[lo:hi] with 0 <= lo, hi <= len(row)
Slice(row, lo, hi) == [i \in 1..(IF hi > lo THEN hi - lo ELSE 0) |-> row[lo + i]]

-----------------------------------------------------------------------------
(* Module constants, batch_parser.py lines 22-35. *)

SHAPES == {"circle", "cross", "ellipse", "pentagon", "rectangle", "semicircle",
           "square", "triangle"}
SHAPES_HYPERNYMS == {"shape"}
COLORS == {"blue", "cyan", "gray", "green", "magenta", "red", "yellow"}
AUX_VOCAB == <<"[UNKNOWN]", "<S>", "</S>">>

SHAPE_COLOR_VOCAB ==
    AUX_VOCAB \o <<"blue", "circle", "cross", "cyan", "ellipse", "gray", "green",
                   "magenta", "pentagon", "rectangle", "red", "semicircle",
                   "square", "triangle", "yellow">>
SHAPE_VOCAB ==
    AUX_VOCAB \o <<"circle", "cross", "ellipse", "pentagon", "rectangle",
                   "semicircle", "square", "triangle">>
COLOR_VOCAB ==
    AUX_VOCAB \o <<"blue", "cyan", "gray", "green", "magenta", "red", "yellow">>
STANDARD_VOCAB ==
    AUX_VOCAB \o <<".", "a", "blue", "circle", "cross", "cyan", "ellipse", "gray",
                   "green", "is", "magenta", "pentagon", "rectangle", "red",
                   "semicircle", "shape", "square", "there", "triangle", "yellow">>

SIMPLE_TGT_VOCAB_ ==
    [shape |-> SHAPE_VOCAB, color |-> COLOR_VOCAB,
     shape_color |-> SHAPE_COLOR_VOCAB, standard |-> STANDARD_VOCAB]

\* default arguments of the constructors
SOS_TOKEN == "<S>"
EOS_TOKEN == "</S>"
SIMPLE_MAX_SEQ_LEN == 5
FULL_MAX_SEQ_LEN == 16

\* Python indices read by crop_color and crop_shape
COLOR_OFFSET == 3
SHAPE_OFFSET == 4

\* the agreement value semparse_evaluate compares with (1.0), in tenths
FULL_AGREEMENT == 10

\* The source vocabulary the dataset supplies (dataset.vocabularies['language']):
\* a small vocabulary with ids contiguous from 0.
SRC_WORDS == <<"", "a", "blue", "circle", "red", "shape", "square", "[UNKNOWN]">>
src_vocab == Enumerate(SRC_WORDS)

-----------------------------------------------------------------------------
(* ParserBase (src/parser_base.py is not part of the sources at hand): the  *)
(* vocabulary map of the specification, sections 3 and 4.1.                *)

\* ParserBase.__init__: keeps the vocabularies and the ids of the markers
ParserBase(src, tgt, sos_token, eos_token, max_seq_len) ==
    [src_vocab |-> src, tgt_vocab |-> tgt,
     sos_token_id |-> tgt[sos_token], eos_token_id |-> tgt[eos_token],
     max_seq_len |-> max_seq_len]

\* vocab_map.lookup: source id -> target id, UNKNOWN's id for a word the
\* target vocabulary does not hold
VocabLookup(p, elem) ==
    LET word == CHOOSE w \in DOMAIN p.src_vocab : p.src_vocab[w] = elem
    IN  IF word \in DOMAIN p.tgt_vocab
        THEN p.tgt_vocab[word]
        ELSE p.tgt_vocab[AUX_VOCAB[1]]

\* rev_vocab: the inverse of tgt_vocab
RevVocab(p, id) == CHOOSE w \in DOMAIN p.tgt_vocab : p.tgt_vocab[w] = id

TgtIds(p) == {p.tgt_vocab[w] : w \in DOMAIN p.tgt_vocab}

-----------------------------------------------------------------------------
(* Construction, batch_parser.py lines 49-64 and 132-148.  A constructor    *)
(* either yields the object or raises: [kind |-> "raise", ...].            *)

Raise(exc, where) == [kind |-> "raise", exc |-> exc, where |-> where]

\* SimpleBatchParser.__init__ falling back on the standard vocabulary for a
\* batch_type it does not know, with the assertion gone
SimpleBatchParserInitDefaultVocab(src, batch_type) ==
    LET words == IF batch_type \in DOMAIN SIMPLE_TGT_VOCAB_
                 THEN SIMPLE_TGT_VOCAB_[batch_type] ELSE STANDARD_VOCAB
        base == ParserBase(src, Enumerate(words), SOS_TOKEN, EOS_TOKEN,
                           SIMPLE_MAX_SEQ_LEN)
    IN  base @@ [kind |-> "simple", batch_type |-> batch_type,
                 token_filter |-> AUX_VOCAB]

\* SimpleBatchParser.__init__
SimpleBatchParserInit(src, batch_type) ==
    IF batch_type \notin DOMAIN SIMPLE_TGT_VOCAB_
    THEN Raise("KeyError", "SimpleBatchParser.__init__")
    ELSE LET tgt_vocab == Enumerate(SIMPLE_TGT_VOCAB_[batch_type])
             base == ParserBase(src, tgt_vocab, SOS_TOKEN, EOS_TOKEN,
                                SIMPLE_MAX_SEQ_LEN)
         IN  IF batch_type \notin {"shape", "color", "shape_color", "standard"}
             THEN Raise("AssertionError", "SimpleBatchParser.__init__")
             ELSE base @@ [kind |-> "simple", batch_type |-> batch_type,
                           token_filter |-> AUX_VOCAB]

\* FullSequenceBatchParser.__init__
FullSequenceBatchParserInit(src, padding_token) ==
    LET max_vocab_idx == Cardinality(DOMAIN src)
        tgt_vocab == [w \in DOMAIN src \cup {SOS_TOKEN, EOS_TOKEN} |->
                        IF w = EOS_TOKEN THEN max_vocab_idx + 1
                        ELSE IF w = SOS_TOKEN THEN max_vocab_idx
                        ELSE src[w]]
        base == ParserBase(src, tgt_vocab, SOS_TOKEN, EOS_TOKEN, FULL_MAX_SEQ_LEN)
    IN  IF padding_token \notin DOMAIN tgt_vocab
        THEN Raise("KeyError", "FullSequenceBatchParser.__init__")
        ELSE base @@ [kind |-> "full", pad_token_id |-> tgt_vocab[padding_token]]

-----------------------------------------------------------------------------
(* The crop functions, lines 66-89 and 150-158.  row is the raw caption, a  *)
(* sequence of source ids.                                                 *)

\* row[i] for a Python index i
At(row, i) == row[i + 1]

crop_color(p, row) ==
    <<p.sos_token_id>> \o <<VocabLookup(p, At(row, COLOR_OFFSET))>>
                       \o <<p.eos_token_id>>

crop_shape(p, row) ==
    <<p.sos_token_id>> \o <<VocabLookup(p, At(row, SHAPE_OFFSET))>>
                       \o <<p.eos_token_id>>

\* crop_shape_color with the two lookups in the other order
crop_shape_color_swapped(p, row) ==
    <<p.sos_token_id>> \o <<VocabLookup(p, At(row, SHAPE_OFFSET))>>
                       \o <<VocabLookup(p, At(row, COLOR_OFFSET))>>
                       \o <<p.eos_token_id>>

crop_shape_color(p, row) ==
    <<p.sos_token_id>> \o <<VocabLookup(p, At(row, COLOR_OFFSET))>>
                       \o <<VocabLookup(p, At(row, SHAPE_OFFSET))>>
                       \o <<p.eos_token_id>>

\* crop_standard keeping the last token: row[:] for row[:-1]
crop_standard_whole_row(p, row) ==
    <<p.sos_token_id>> \o [i \in 1..Len(row) |-> VocabLookup(p, row[i])]
                       \o <<p.eos_token_id>>

\* SimpleBatchParser.crop_standard: row[:-1]
crop_standard(p, row) ==
    LET body == Slice(row, 0, Len(row) - 1)
    IN  <<p.sos_token_id>> \o [i \in 1..Len(body) |-> VocabLookup(p, body[i])]
                           \o <<p.eos_token_id>>

\* FullSequenceBatchParser.crop_standard: row[:caption_length], row[caption_length:]
full_crop_standard(p, row, caption_length) ==
    LET head == Slice(row, 0, caption_length)
        tail == Slice(row, caption_length, Len(row))
    IN  <<p.sos_token_id>> \o [i \in 1..Len(head) |-> VocabLookup(p, head[i])]
                           \o <<p.eos_token_id>>
                           \o [i \in 1..Len(tail) |-> p.pad_token_id]

\* get_batch_parser: the crop function the returned closure captures
GetCropFn(p) ==
    IF p.kind = "full" THEN "full_crop_standard"
    ELSE IF p.batch_type = "shape" THEN "crop_shape"
    ELSE IF p.batch_type = "color" THEN "crop_color"
    ELSE IF p.batch_type = "shape_color" THEN "crop_shape_color"
    ELSE "crop_standard"

\* the Python indices a crop function reads beyond what every row has
NeedsLen(fn) ==
    IF fn \in {"crop_shape", "crop_shape_color"} THEN SHAPE_OFFSET + 1
    ELSE IF fn = "crop_color" THEN COLOR_OFFSET + 1
    ELSE 0

\* batch_parser applied to one item: crop_fn on its caption
ApplyCrop(p, fn, row, caption_length) ==
    IF Len(row) < NeedsLen(fn) THEN Raise("IndexError", fn)
    ELSE [kind |-> "cropped",
          caption |-> IF fn = "crop_shape" THEN crop_shape(p, row)
                      ELSE IF fn = "crop_color" THEN crop_color(p, row)
                      ELSE IF fn = "crop_shape_color" THEN crop_shape_color(p, row)
                      ELSE IF fn = "crop_standard" THEN crop_standard(p, row)
                      ELSE full_crop_standard(p, row, caption_length)]

-----------------------------------------------------------------------------
(* score_cap_against_world_oneshape, lines 180-218. *)

CaptionScore(world_model, inf_cap, ref_shape, ref_color, shape_correct, color_correct, specify_true, no_color_specify_shape_true, specify_color_hypernym_shape_true, no_color_hypernym_shape_true, false) ==
    [kind |-> "CaptionScore",
     world_model |-> world_model, inf_cap |-> inf_cap,
     ref_shape |-> ref_shape, ref_color |-> ref_color,
     shape_correct |-> shape_correct, color_correct |-> color_correct,
     specify_true |-> specify_true,
     no_color_specify_shape_true |-> no_color_specify_shape_true,
     specify_color_hypernym_shape_true |-> specify_color_hypernym_shape_true,
     no_color_hypernym_shape_true |-> no_color_hypernym_shape_true,
     false |-> false]

\* set([rev_vocab[w] for w in idxs if rev_vocab[w] in words])
SeenIn(p, idxs, words) ==
    {RevVocab(p, idxs[i]) : i \in {j \in 1..Len(idxs) : RevVocab(p, idxs[j]) \in words}}

\* [rev_vocab[w] for w in idxs if w != pad_token_id], the words " ".join joins
RECURSIVE InfCapWords(_, _)
InfCapWords(p, idxs) ==
    IF idxs = <<>> THEN <<>>
    ELSE (IF Head(idxs) # p.pad_token_id THEN <<RevVocab(p, Head(idxs))>> ELSE <<>>)
         \o InfCapWords(p, Tail(idxs))

\* ScoreBranch with the hypernym test of the third branch left out
ScoreBranchNoHypernymTest(ref_shape, ref_color, inf_shapes, inf_colors, inf_hyper) ==
    IF ref_color \in inf_colors /\ ref_shape \in inf_shapes THEN 1
    ELSE IF ref_shape \in inf_shapes /\ inf_colors = {} THEN 2
    ELSE IF ref_color \in inf_colors /\ inf_shapes = {} THEN 3
    ELSE IF inf_hyper # {} /\ inf_colors = {} /\ inf_shapes = {} THEN 4
    ELSE 5

\* lines 209-218: which branch of the if/elif chain is taken, 1 to 5
ScoreBranch(ref_shape, ref_color, inf_shapes, inf_colors, inf_hyper) ==
    IF ref_color \in inf_colors /\ ref_shape \in inf_shapes THEN 1
    ELSE IF ref_shape \in inf_shapes /\ inf_colors = {} THEN 2
    ELSE IF ref_color \in inf_colors /\ inf_hyper # {} /\ inf_shapes = {} THEN 3
    ELSE IF inf_hyper # {} /\ inf_colors = {} /\ inf_shapes = {} THEN 4
    ELSE 5

\* ScoreFlags with the last branch returning no indicator at all
ScoreFlagsNoFalse(branch) ==
    IF branch = 1 THEN <<1, 1, 1, 0, 0, 0, 0>>
    ELSE IF branch = 2 THEN <<1, 0, 0, 1, 0, 0, 0>>
    ELSE IF branch = 3 THEN <<0, 1, 0, 0, 1, 0, 0>>
    ELSE IF branch = 4 THEN <<0, 0, 0, 0, 0, 1, 0>>
    ELSE <<0, 0, 0, 0, 0, 0, 0>>

\* lines 210-218: the seven numbers each branch returns, shape_correct and
\* color_correct first, then the five outcome indicators
ScoreFlags(branch) ==
    IF branch = 1 THEN <<1, 1, 1, 0, 0, 0, 0>>
    ELSE IF branch = 2 THEN <<1, 0, 0, 1, 0, 0, 0>>
    ELSE IF branch = 3 THEN <<0, 1, 0, 0, 1, 0, 0>>
    ELSE IF branch = 4 THEN <<0, 0, 0, 0, 0, 1, 0>>
    ELSE <<0, 0, 0, 0, 0, 0, 1>>

score_cap_against_world_oneshape(p, world_model, inf_caption_idxs) ==
    LET ref_color == world_model.entities[1].color.name
        ref_shape == world_model.entities[1].shape.name
        inf_shapes == SeenIn(p, inf_caption_idxs, SHAPES)
        inf_colors == SeenIn(p, inf_caption_idxs, COLORS)
        inf_hyper == SeenIn(p, inf_caption_idxs, SHAPES_HYPERNYMS)
        inf_cap_str == InfCapWords(p, inf_caption_idxs)
        t == ScoreFlags(ScoreBranch(ref_shape, ref_color, inf_shapes, inf_colors,
                                    inf_hyper))
    IN  CaptionScore(world_model, inf_cap_str, ref_shape, ref_color,
                     t[1], t[2], t[3], t[4], t[5], t[6], t[7])

\* the world models scored: one entity, any of the 8 shapes and 7 colors
WorldModels ==
    {[entities |-> <<[shape |-> [name |-> s], color |-> [name |-> c]]>>] :
        s \in SHAPES, c \in COLORS}

-----------------------------------------------------------------------------
(* semparse_evaluate, lines 229-274.  The external parser returns a list of *)
(* candidate parses; a candidate is modelled by what its conversion does:  *)
(* "raise", "empty" (a falsy graph) or "graph" (a non-empty graph).  The   *)
(* analyzer returns a list of logical forms, each modelled by the          *)
(* agreement its scoring yields against the world.                         *)

Conversions == {"raise", "empty", "graph"}

None == [kind |-> "none"]

ParseScore(cap, agreement, false, out_of_scope, ungrammatical) ==
    [kind |-> "ParseScore", cap |-> cap, agreement |-> agreement, false |-> false,
     out_of_scope |-> out_of_scope, ungrammatical |-> ungrammatical]

Unbound == [v |-> "unbound", of |-> 0]

\* the locals of a call: caption, mrs_iter, the loop index, dmrs_conversion and
\* analyses, with the calls made so far to the converter (converted), the
\* analyzer (analyzed) and the scorer (scored)
EmptyFrame ==
    [caption |-> <<"sentence", 0>>, mrs_iter |-> <<>>, idx |-> 0,
     dmrs_conversion |-> Unbound, analyses |-> <<>>,
     converted |-> <<>>, analyzed |-> <<>>, scored |-> <<>>]

Return(f, value) == [pc |-> "main", frame |-> f, result |-> value]
Goto(label, f) == [pc |-> label, frame |-> f, result |-> None]
Escape(f, exc, where) == [pc |-> "raised", frame |-> f, result |-> Raise(exc, where)]

\* SemParse without the test for an empty candidate list: the loop body never
\* runs and line 253 reads dmrs_conversion
SemParseNoEmptyTest(f, mrs_iter) ==
    LET f1 == [f EXCEPT !.mrs_iter = mrs_iter]
    IN  IF mrs_iter = <<>>
        THEN Goto("after_loop", f1)
        ELSE Goto("convert", f1)

\* lines 235-238: the parse and the test for no candidates
SemParse(f, mrs_iter) ==
    LET f1 == [f EXCEPT !.mrs_iter = mrs_iter]
    IN  IF mrs_iter = <<>>
        THEN Return(f1, ParseScore(f1.caption, 0, 0, 0, 1))
        ELSE Goto("convert", f1)

\* SemConvert without the try/except: a conversion fault leaves the evaluator
SemConvertNoExcept(f) ==
    LET mrs == At(f.mrs_iter, f.idx)
        f1 == [f EXCEPT !.converted = Append(@, f.idx)]
        f2 == [f1 EXCEPT !.dmrs_conversion = [v |-> mrs, of |-> f.idx]]
    IN  IF mrs = "raise"
        THEN Escape(f1, "ConversionError", "stage2")
        ELSE IF mrs = "graph"
        THEN Goto("after_loop", f2)
        ELSE IF f.idx + 1 < Len(f.mrs_iter)
        THEN Goto("convert", [f2 EXCEPT !.idx = f.idx + 1])
        ELSE Goto("after_loop", f2)

\* SemConvert without the break: the loop goes on after a non-empty graph
SemConvertNoBreak(f) ==
    LET mrs == At(f.mrs_iter, f.idx)
        f1 == [f EXCEPT !.converted = Append(@, f.idx)]
        f2 == [f1 EXCEPT !.dmrs_conversion = [v |-> mrs, of |-> f.idx]]
    IN  IF mrs = "raise"
        THEN Return(f1, ParseScore(f1.caption, 0, 0, 1, 0))
        ELSE IF f.idx + 1 < Len(f.mrs_iter)
        THEN Goto("convert", [f2 EXCEPT !.idx = f.idx + 1])
        ELSE Goto("after_loop", f2)

\* lines 241-251: one pass of the loop body, on candidate f.idx
SemConvert(f) ==
    LET mrs == At(f.mrs_iter, f.idx)
        f1 == [f EXCEPT !.converted = Append(@, f.idx)]
        f2 == [f1 EXCEPT !.dmrs_conversion = [v |-> mrs, of |-> f.idx]]
    IN  IF mrs = "raise"
        THEN Return(f1, ParseScore(f1.caption, 0, 0, 1, 0))
        ELSE IF mrs = "graph"
        THEN Goto("after_loop", f2)
        ELSE IF f.idx + 1 < Len(f.mrs_iter)
        THEN Goto("convert", [f2 EXCEPT !.idx = f.idx + 1])
        ELSE Goto("after_loop", f2)

\* lines 253-262: the test of dmrs_conversion, the analysis and its test
SemAnalyze(f, analyses) ==
    IF f.dmrs_conversion.v = "unbound"
    THEN Escape(f, "UnboundLocalError", "dmrs_conversion")
    ELSE IF f.dmrs_conversion.v # "graph"
    THEN Return(f, ParseScore(f.caption, 0, 0, 1, 0))
    ELSE LET f1 == [f EXCEPT !.analyzed = Append(@, f.dmrs_conversion),
                             !.analyses = analyses]
         IN  IF analyses = <<>>
             THEN Return(f1, ParseScore(f1.caption, 0, 0, 1, 0))
             ELSE Goto("score", f1)

\* SemScore testing the agreement for truth instead of equality with 1.0
SemScoreTruthy(f) ==
    LET caption == <<"analysis", 0>>
        agreement == At(f.analyses, 0)
        f1 == [f EXCEPT !.caption = caption, !.scored = Append(@, 0)]
    IN  IF agreement # 0
        THEN Return(f1, ParseScore(caption, 1, 0, 0, 0))
        ELSE Return(f1, ParseScore(caption, 0, 1, 0, 0))

\* lines 265-274: the first analysis is scored against the world
SemScore(f) ==
    LET caption == <<"analysis", 0>>
        agreement == At(f.analyses, 0)
        f1 == [f EXCEPT !.caption = caption, !.scored = Append(@, 0)]
    IN  IF agreement = FULL_AGREEMENT
        THEN Return(f1, ParseScore(caption, 1, 0, 0, 0))
        ELSE Return(f1, ParseScore(caption, 0, 1, 0, 0))

-----------------------------------------------------------------------------
(* The evaluation loop of test_simple_network.py, lines 114-151, run with   *)
(* batches of one item.  Means and variances are kept as fractions          *)
(* [num, den]; den = 0 is numpy's nan for an empty list.                   *)

RECURSIVE SumSeq(_)
SumSeq(xs) == IF xs = <<>> THEN 0 ELSE Head(xs) + SumSeq(Tail(xs))

\* np.mean(xs)
Mean(xs) == [num |-> SumSeq(xs), den |-> Len(xs)]

\* np.std(xs), squared: mean(x^2) - mean(x)^2
StdSquared(xs) ==
    [num |-> Len(xs) * SumSeq([i \in 1..Len(xs) |-> xs[i] * xs[i]])
             - SumSeq(xs) * SumSeq(xs),
     den |-> Len(xs) * Len(xs)]

\* squeeze() of the (1, T) array a batch of one item gives: a single id
\* becomes a zero-dimensional array
Squeeze(ids) == [ndim |-> IF Len(ids) = 1 THEN 0 ELSE 1, items |-> ids]

\* lines 137-138: set([tok for tok in cap if int(tok) not in token_filter]);
\* token_filter holds the words of AUX_VOCAB and int(tok) is a number, which
\* equals none of them, so every id is kept
StripTokens(cap, token_filter) == {cap.items[i] : i \in 1..Len(cap.items)}

\* lines 115-118: the lists before the first item
NewLoop(num_imgs) ==
    [num_imgs |-> num_imgs, b_idx |-> 0,
     corrects |-> <<>>, incorrects |-> <<>>, misses |-> <<>>,
     perplexities |-> <<>>,
     seen_ndim |-> <<>>,     \* inf_cap.ndim of every item so far
     avg_acc |-> Mean(<<>>), std_acc |-> StdSquared(<<>>),
     avg_perplexity |-> Mean(<<>>), std_perplexity |-> StdSquared(<<>>)]

\* LoopBody without the test of inf_cap.ndim: every item is compared
LoopBodyNoShapeTest(l, ref_cap, inf_cap, batch_perplexity, token_filter) ==
    LET l1 == [l EXCEPT !.perplexities = Append(@, batch_perplexity),
                        !.seen_ndim = Append(@, inf_cap.ndim),
                        !.b_idx = @ + 1]
        ref == StripTokens(ref_cap, token_filter)
        inf == StripTokens(inf_cap, token_filter)
    IN  IF \A i \in inf : i \in ref
        THEN [l1 EXCEPT !.corrects = Append(@, 1)]
        ELSE [l1 EXCEPT !.incorrects = Append(@, <<ref, inf>>)]

\* LoopBody recording a wrong caption as a 0 in corrects
LoopBodyZeroForWrong(l, ref_cap, inf_cap, batch_perplexity, token_filter) ==
    LET l1 == [l EXCEPT !.perplexities = Append(@, batch_perplexity),
                        !.seen_ndim = Append(@, inf_cap.ndim),
                        !.b_idx = @ + 1]
    IN  IF inf_cap.ndim > 0 /\ inf_cap.ndim > 0
        THEN LET ref == StripTokens(ref_cap, token_filter)
                 inf == StripTokens(inf_cap, token_filter)
             IN  IF \A i \in inf : i \in ref
                 THEN [l1 EXCEPT !.corrects = Append(@, 1)]
                 ELSE [l1 EXCEPT !.corrects = Append(@, 0),
                                 !.incorrects = Append(@, <<ref, inf>>)]
        ELSE [l1 EXCEPT !.misses = Append(@, 1)]

\* lines 128-146: one pass of the loop body
LoopBody(l, ref_cap, inf_cap, batch_perplexity, token_filter) ==
    LET l1 == [l EXCEPT !.perplexities = Append(@, batch_perplexity),
                        !.seen_ndim = Append(@, inf_cap.ndim),
                        !.b_idx = @ + 1]
    IN  IF inf_cap.ndim > 0 /\ inf_cap.ndim > 0
        THEN LET ref == StripTokens(ref_cap, token_filter)
                 inf == StripTokens(inf_cap, token_filter)
             IN  IF \A i \in inf : i \in ref
                 THEN [l1 EXCEPT !.corrects = Append(@, 1)]
                 ELSE [l1 EXCEPT !.incorrects = Append(@, <<ref, inf>>)]
        ELSE [l1 EXCEPT !.misses = Append(@, 1)]

\* lines 149-154: the scores of the checkpoint
LoopScores(l) ==
    [l EXCEPT !.avg_acc = Mean(l.corrects),
              !.std_acc = StdSquared(l.corrects),
              !.avg_perplexity = Mean(l.perplexities),
              !.std_perplexity = StdSquared(l.perplexities)]

-----------------------------------------------------------------------------
(* The state machine: setup (construct, get_batch_parser, build_semparser), *)
(* then one call at a time on an item.                                     *)

Init ==
    /\ parser = None
    /\ args = [cls |-> "none"]
    /\ batch_fn = "none"
    /\ semparser = FALSE
    /\ pc = "main"
    /\ call = [fn |-> "none"]
    /\ frame = EmptyFrame
    /\ loop = NewLoop(0)
    /\ result = None

\* the result of a constructor call: the object is bound, or the fault ends the run
Construct(r) ==
    /\ IF r.kind = "raise"
       THEN pc' = "raised" /\ result' = r /\ UNCHANGED parser
       ELSE parser' = r /\ UNCHANGED <<pc, result>>
    /\ UNCHANGED <<batch_fn, semparser, call, frame, loop>>

NewSimpleBatchParser ==
    /\ pc = "main" /\ parser.kind = "none"
    /\ \E batch_type \in BatchTypes :
        /\ args' = [cls |-> "SimpleBatchParser", batch_type |-> batch_type]
        /\ Construct(SimpleBatchParserInit(src_vocab, batch_type))

NewFullSequenceBatchParser ==
    /\ pc = "main" /\ parser.kind = "none"
    /\ \E padding_token \in PaddingTokens :
        /\ args' = [cls |-> "FullSequenceBatchParser", padding_token |-> padding_token]
        /\ Construct(FullSequenceBatchParserInit(src_vocab, padding_token))

\* get_batch_parser is a method: it needs the object
GetBatchParser ==
    /\ pc = "main" /\ parser.kind \in {"simple", "full"} /\ batch_fn = "none"
    /\ batch_fn' = GetCropFn(parser)
    /\ UNCHANGED <<parser, args, semparser, pc, call, frame, loop, result>>

\* build_semparser, lines 220-229 and 276
BuildSemparser ==
    /\ pc = "main" /\ parser.kind = "full" /\ batch_fn # "none" /\ ~semparser
    /\ semparser' = TRUE
    /\ UNCHANGED <<parser, args, batch_fn, pc, call, frame, loop, result>>

Ready ==
    /\ pc = "main" /\ result.kind = "none"
    /\ batch_fn # "none"
    /\ parser.kind = "full" => semparser

RowIds == {src_vocab[w] : w \in RowWords}

\* batch_parser on one item of a batch
BatchParser ==
    /\ Ready
    /\ \E row \in SeqsUpTo(RowIds, MaxRowLen) :
       \E caption_length \in (IF parser.kind = "full" THEN 0..Len(row) ELSE {Len(row)}) :
          LET r == ApplyCrop(parser, batch_fn, row, caption_length)
          IN  /\ call' = [fn |-> "batch_parser", row |-> row,
                           caption_length |-> caption_length]
              /\ result' = r
              /\ pc' = IF r.kind = "raise" THEN "raised" ELSE "main"
    /\ UNCHANGED <<parser, args, batch_fn, semparser, frame, loop>>

ScoreCap ==
    /\ Ready /\ parser.kind = "full"
    /\ \E world_model \in WorldModels :
       \E inf_caption_idxs \in SeqsUpTo(TgtIds(parser), MaxInfLen) :
          /\ call' = [fn |-> "score_cap_against_world_oneshape",
                       world_model |-> world_model,
                       inf_caption_idxs |-> inf_caption_idxs]
          /\ result' = score_cap_against_world_oneshape(parser, world_model,
                                                        inf_caption_idxs)
    /\ UNCHANGED <<parser, args, batch_fn, semparser, pc, frame, loop>>

Step(s) ==
    /\ pc' = s.pc /\ frame' = s.frame /\ result' = s.result
    /\ call' = [fn |-> "semparse_evaluate"]
    /\ UNCHANGED <<parser, args, batch_fn, semparser, loop>>

SemparseCall ==
    /\ Ready /\ semparser
    /\ \E mrs_iter \in SeqsUpTo(Conversions, MaxParses) :
          Step(SemParse(EmptyFrame, mrs_iter))

Convert ==
    /\ pc = "convert"
    /\ Step(SemConvert(frame))

Analyze ==
    /\ pc = "after_loop"
    /\ \E analyses \in (IF frame.dmrs_conversion.v = "graph"
                        THEN SeqsUpTo(Scores, MaxAnalyses) ELSE {<<>>}) :
          Step(SemAnalyze(frame, analyses))

Score ==
    /\ pc = "score"
    /\ Step(SemScore(frame))

\* the caller goes on to the next item
NextItem ==
    /\ pc = "main" /\ result.kind # "none"
    /\ result' = None /\ frame' = EmptyFrame /\ call' = [fn |-> "none"]
    /\ UNCHANGED <<parser, args, batch_fn, semparser, pc, loop>>

-----------------------------------------------------------------------------
(* The actions of the evaluation loop. *)

EvalRows == {[i \in 1..Len(ws) |-> src_vocab[ws[i]]] : ws \in EvalRowWords}

\* lines 86-118: the test starts, for num_imgs items
StartTest ==
    /\ Ready /\ parser.kind = "simple"
    /\ \E num_imgs \in 1..MaxImgs : loop' = NewLoop(num_imgs)
    /\ pc' = "test_loop"
    /\ UNCHANGED <<parser, args, batch_fn, semparser, call, frame, result>>

\* lines 120-146: one item: the reference caption is the cropped caption of a
\* batch item, the inferred one whatever the decoder emits
TestItem ==
    /\ pc = "test_loop" /\ loop.b_idx < loop.num_imgs
    /\ \E row \in EvalRows :
       \E sample_id \in SeqsUpTo(DecoderIds, MaxInfLen) :
       \E batch_perplexity \in PerplexityValues :
          loop' = LoopBody(loop,
                           Squeeze(ApplyCrop(parser, batch_fn, row, Len(row)).caption),
                           Squeeze(sample_id), batch_perplexity,
                           parser.token_filter)
    /\ UNCHANGED <<parser, args, batch_fn, semparser, pc, call, frame, result>>

\* lines 148-156: the loop is over, the scores are computed and printed
FinishTest ==
    /\ pc = "test_loop" /\ loop.b_idx = loop.num_imgs
    /\ loop' = LoopScores(loop)
    /\ pc' = "tested"
    /\ UNCHANGED <<parser, args, batch_fn, semparser, call, frame, result>>

Next ==
    \/ NewSimpleBatchParser
    \/ NewFullSequenceBatchParser
    \/ GetBatchParser
    \/ BuildSemparser
    \/ BatchParser
    \/ ScoreCap
    \/ SemparseCall
    \/ Convert
    \/ Analyze
    \/ Score
    \/ NextItem
    \/ StartTest
    \/ TestItem
    \/ FinishTest

Spec == Init /\ [][Next]_vars

(* The external calls outside the try block may fault as well: the parse    *)
(* (line 235), the analysis (line 257) and the scoring (lines 266-269).    *)
(* Nothing catches these.                                                  *)

ParseFault ==
    /\ Ready /\ semparser
    /\ Step(Escape(EmptyFrame, "ParserError", "stage1"))

AnalyzeFault ==
    /\ pc = "after_loop" /\ frame.dmrs_conversion.v = "graph"
    /\ Step(Escape([frame EXCEPT !.analyzed = Append(@, frame.dmrs_conversion)],
                   "AnalyzerError", "stage3"))

ScoreFault ==
    /\ pc = "score"
    /\ Step(Escape([frame EXCEPT !.scored = Append(@, 0)], "ScorerError", "stage4"))

NextFault ==
    \/ Next
    \/ ParseFault
    \/ AnalyzeFault
    \/ ScoreFault

SpecFault == Init /\ [][NextFault]_vars

-----------------------------------------------------------------------------
(* Properties of score_cap_against_world_oneshape. *)

Scored == result.kind = "CaptionScore"

\* the five outcome indicators of a CaptionScore, in the order of the fields
Outcomes(r) ==
    <<r.specify_true, r.no_color_specify_shape_true,
      r.specify_color_hypernym_shape_true, r.no_color_hypernym_shape_true, r.false>>

\* the words of the inferred caption, and the reference attributes
InfWords == {RevVocab(parser, call.inf_caption_idxs[i]) :
                i \in 1..Len(call.inf_caption_idxs)}
shapes_seen == InfWords \cap SHAPES
colors_seen == InfWords \cap COLORS
hypernym_seen == InfWords \cap SHAPES_HYPERNYMS # {}
ref_shape == call.world_model.entities[1].shape.name
ref_color == call.world_model.entities[1].color.name

\* C1: every CaptionScore returned, for any world model and any inferred token
\* sequence (the empty one included), has exactly one of its five outcome
\* indicators at 1 and the other four at 0.
C1_ExactlyOneOutcome ==
    Scored =>
        LET o == Outcomes(result)
        IN  /\ \A i \in 1..5 : o[i] \in {0, 1}
            /\ Cardinality({i \in 1..5 : o[i] = 1}) = 1

\* C1 at work: the empty token sequence has been scored, as outcome false
C1_Witness ==
    /\ Scored
    /\ call.inf_caption_idxs = <<>>
    /\ Outcomes(result) = <<0, 0, 0, 0, 1>>

\* the conditions of rows 1 to 4 of the decision table
TableRow(n) ==
    IF n = 1 THEN ref_color \in colors_seen /\ ref_shape \in shapes_seen
    ELSE IF n = 2 THEN ref_shape \in shapes_seen /\ colors_seen = {}
    ELSE IF n = 3 THEN ref_color \in colors_seen /\ hypernym_seen /\ shapes_seen = {}
    ELSE hypernym_seen /\ colors_seen = {} /\ shapes_seen = {}

\* C2: the outcome returned is the one of the decision table: the indicator of
\* row n (1 to 4) is 1 exactly when the condition of row n holds, the indicator
\* false is 1 exactly when no row's condition holds, and no two rows' conditions
\* hold together, so the order of the tests does not matter.
C2_DecisionTable ==
    Scored =>
        /\ \A n \in 1..4 : (Outcomes(result)[n] = 1) <=> TableRow(n)
        /\ (Outcomes(result)[5] = 1) <=> (\A n \in 1..4 : ~TableRow(n))
        /\ \A m, n \in 1..4 : (m # n) => ~(TableRow(m) /\ TableRow(n))

\* C2 at work: a red circle described as "red shape" is row 3
C2_Witness ==
    /\ Scored
    /\ ref_shape = "circle" /\ ref_color = "red"
    /\ InfWords = {"red", "shape"}
    /\ result.specify_color_hypernym_shape_true = 1

\* C3: shape_correct is 1 exactly when the reference shape is among the shapes
\* seen, and color_correct is 1 exactly when the reference color is among the
\* colors seen, whatever the outcome category.
C3_CorrectFlags ==
    Scored =>
        /\ (result.shape_correct = 1) <=> (ref_shape \in shapes_seen)
        /\ (result.color_correct = 1) <=> (ref_color \in colors_seen)

-----------------------------------------------------------------------------
(* Properties of semparse_evaluate. *)

InSemparse == call.fn = "semparse_evaluate"
SemRunning == InSemparse /\ pc \in {"convert", "after_loop", "score"}
SemReturned == InSemparse /\ pc = "main" /\ result.kind = "ParseScore"
SemEscaped == InSemparse /\ pc = "raised"

\* the four indicators of a ParseScore, in the order of the fields
Categories(r) == <<r.agreement, r.false, r.out_of_scope, r.ungrammatical>>

AGREEMENT == <<1, 0, 0, 0>>
DISAGREEMENT == <<0, 1, 0, 0>>
OUT_OF_SCOPE == <<0, 0, 1, 0>>
UNGRAMMATICAL == <<0, 0, 0, 1>>

\* the candidates (Python indices) whose conversion raises or yields a non-empty
\* graph, and the first of them
Deciding == {i \in 0..(Len(frame.mrs_iter) - 1) : At(frame.mrs_iter, i) # "empty"}
FirstDeciding == CHOOSE k \in Deciding : \A i \in Deciding : k <= i
Usable == Deciding # {} /\ At(frame.mrs_iter, FirstDeciding) = "graph"

\* C4: with externals that keep their call contracts, a run of semparse_evaluate
\* never leaves by a fault, can always take its next step while it is running
\* (and converts no more candidates than the parser returned), and what it
\* returns is a ParseScore with exactly one of the four indicators at 1 and
\* the other three at 0.
C4_ExactlyOneCategory ==
    /\ ~SemEscaped
    /\ SemRunning => /\ ENABLED (Convert \/ Analyze \/ Score)
                     /\ Len(frame.converted) <= Len(frame.mrs_iter)
    /\ (InSemparse /\ pc = "main") => SemReturned
    /\ SemReturned =>
        LET c == Categories(result)
        IN  /\ \A i \in 1..4 : c[i] \in {0, 1}
            /\ Cardinality({i \in 1..4 : c[i] = 1}) = 1

\* C4 at work: a run on a caption with no parse has ended as ungrammatical
C4_Witness ==
    /\ SemReturned
    /\ frame.mrs_iter = <<>>
    /\ Categories(result) = UNGRAMMATICAL

\* some conversion attempted in this run raised
ConversionRaised ==
    \E i \in 1..Len(frame.converted) : At(frame.mrs_iter, frame.converted[i]) = "raise"

\* C5 as stated: no fault of stages 1 to 3 leaves the evaluator; a fault that
\* does leave it is one of the stage 4 scoring calls.
C5_OnlyScoringFaultEscapes ==
    SemEscaped => result.where = "stage4"

\* C5 amended: a fault raised by a conversion (stage 2) is caught and the run
\* ends at OUT_OF_SCOPE; the faults that leave the evaluator are those of the
\* parse call (stage 1), of the analysis (stage 3) and of the scoring (stage 4).
C5_OnlyConversionFaultCaught ==
    /\ (InSemparse /\ ConversionRaised) =>
            SemReturned /\ Categories(result) = OUT_OF_SCOPE
    /\ SemEscaped => /\ result.where \in {"stage1", "stage3", "stage4"}
                     /\ ~ConversionRaised

\* C5 at work: a conversion raised and the run returned OUT_OF_SCOPE
C5_Witness ==
    /\ SemReturned
    /\ ConversionRaised
    /\ Categories(result) = OUT_OF_SCOPE

\* C6: candidates are converted in the parser's order, each at most once; with
\* k the first candidate whose conversion raises or yields a non-empty graph,
\* nothing after k is converted, a raise at k ends the run at OUT_OF_SCOPE and
\* a graph at k is the one graph the analyzer gets; without such a candidate
\* all are converted, the analyzer is not called and the run ends at
\* OUT_OF_SCOPE.
C6_ConversionOrder ==
    InSemparse =>
        LET n == Len(frame.mrs_iter)
            done == Len(frame.converted)
        IN  /\ frame.converted = [i \in 1..done |-> i - 1]
            /\ Len(frame.analyzed) <= 1
            /\ pc = "convert" =>
                    /\ frame.idx = done
                    /\ \A i \in 0..(done - 1) : At(frame.mrs_iter, i) = "empty"
            /\ (pc # "convert" /\ n > 0) =>
                    IF Deciding = {}
                    THEN /\ done = n
                         /\ frame.analyzed = <<>>
                         /\ pc = "main" => Categories(result) = OUT_OF_SCOPE
                    ELSE /\ done = FirstDeciding + 1
                         /\ IF At(frame.mrs_iter, FirstDeciding) = "raise"
                            THEN /\ SemReturned
                                 /\ Categories(result) = OUT_OF_SCOPE
                                 /\ frame.analyzed = <<>>
                            ELSE LET graph == [v |-> "graph", of |-> FirstDeciding]
                                 IN  /\ frame.dmrs_conversion = graph
                                     /\ pc # "after_loop" => frame.analyzed = <<graph>>

\* C6 at work: the second of three candidates gave the graph that was analyzed,
\* the third was never converted
C6_Witness ==
    /\ SemReturned
    /\ frame.mrs_iter = <<"empty", "graph", "raise">>
    /\ frame.converted = <<0, 1>>
    /\ frame.analyzed = <<[v |-> "graph", of |-> 1]>>

\* C7: the category returned is UNGRAMMATICAL exactly for zero candidates,
\* AGREEMENT exactly when a graph was found, the analyzer's list is not empty and
\* its first entry scores exactly 1.0, DISAGREEMENT exactly when it scores
\* anything else, OUT_OF_SCOPE in every other case; and the scorer is called
\* only after stages 1 to 3 succeeded, on the first entry.
C7_CategoryByStage ==
    LET n == Len(frame.mrs_iter)
        analysed == n >= 1 /\ Usable /\ frame.analyses # <<>>
    IN  /\ SemReturned =>
            LET c == Categories(result)
            IN  /\ (c = UNGRAMMATICAL) <=> (n = 0)
                /\ (c = AGREEMENT) <=>
                        (analysed /\ frame.analyses[1] = FULL_AGREEMENT)
                /\ (c = DISAGREEMENT) <=>
                        (analysed /\ frame.analyses[1] # FULL_AGREEMENT)
                /\ (c = OUT_OF_SCOPE) <=> (n >= 1 /\ ~analysed)
        /\ (InSemparse /\ frame.scored # <<>>) =>
                /\ analysed
                /\ frame.analyzed # <<>>
                /\ frame.scored = <<0>>

\* C7 at work: a run whose first candidate gave no graph and whose first
\* analysis scores 1.0, the second 0.0, has ended at AGREEMENT
C7_Witness ==
    /\ SemReturned
    /\ frame.mrs_iter = <<"empty", "graph">>
    /\ frame.analyses = <<10, 0>>
    /\ Categories(result) = AGREEMENT

-----------------------------------------------------------------------------
(* Properties of construction and cropping. *)

Cropped == call.fn = "batch_parser" /\ result.kind = "cropped"

\* the cropping mode of the parser at hand
Mode == IF parser.kind = "full" THEN "full" ELSE parser.batch_type

\* the target ids of the markers, and of the word behind a source id
START == parser.tgt_vocab[SOS_TOKEN]
END == parser.tgt_vocab[EOS_TOKEN]
PAD == parser.tgt_vocab[args.padding_token]
IdOf(elem) == VocabLookup(parser, elem)

\* C8: the cropped sequence is START, the id of the token at the mode's offset
\* (color before shape in shape_color), END in the three short modes; START,
\* the ids of all tokens but the last, END in standard mode; START, the ids of
\* the first caption_length tokens, END, then PAD for every remaining position
\* in full mode.  So the first id is START and the last id before the padding
\* is END.
C8_CroppedSequence ==
    Cropped =>
        LET row == call.row
            out == result.caption
            cl == call.caption_length
        IN  /\ Mode = "shape" => out = <<START, IdOf(At(row, SHAPE_OFFSET)), END>>
            /\ Mode = "color" => out = <<START, IdOf(At(row, COLOR_OFFSET)), END>>
            /\ Mode = "shape_color" =>
                    out = <<START, IdOf(At(row, COLOR_OFFSET)),
                            IdOf(At(row, SHAPE_OFFSET)), END>>
            /\ Mode = "standard" =>
                    LET kept == IF Len(row) = 0 THEN 0 ELSE Len(row) - 1
                    IN  /\ Len(out) = kept + 2
                        /\ \A i \in 1..kept : out[i + 1] = IdOf(row[i])
            /\ Mode = "full" =>
                    /\ Len(out) = Len(row) + 2
                    /\ \A i \in 1..cl : out[i + 1] = IdOf(row[i])
                    /\ out[cl + 2] = END
                    /\ \A i \in (cl + 3)..Len(out) : out[i] = PAD
            /\ out[1] = START
            /\ Mode # "full" => out[Len(out)] = END

\* C8 at work: "red square" at the two offsets, cropped in shape_color mode
C8_Witness ==
    /\ Cropped
    /\ Mode = "shape_color"
    /\ At(call.row, COLOR_OFFSET) = src_vocab["red"]
    /\ At(call.row, SHAPE_OFFSET) = src_vocab["square"]
    /\ result.caption = <<1, 13, 15, 2>>

\* C9 as stated: the cropped length is 3, 3, 4, and max_seq_len in the standard
\* and full modes, whatever the raw caption.
C9_LengthIsMaxSeqLen ==
    Cropped =>
        Len(result.caption) =
            (IF Mode \in {"shape", "color"} THEN 3
             ELSE IF Mode = "shape_color" THEN 4
             ELSE parser.max_seq_len)

\* C9 amended: the cropped length is 3, 3 and 4 in the short modes; in standard
\* mode it is the caption's width plus 1 (2 for an empty caption) and in full
\* mode the caption's width plus 2, for any caption_length from 0 to the
\* width; max_seq_len plays no part in it.
C9_LengthByMode ==
    Cropped =>
        Len(result.caption) =
            (IF Mode \in {"shape", "color"} THEN 3
             ELSE IF Mode = "shape_color" THEN 4
             ELSE IF Mode = "standard"
             THEN (IF Len(call.row) = 0 THEN 2 ELSE Len(call.row) + 1)
             ELSE Len(call.row) + 2)

\* C9 at work: a caption of width 3 and true length 1 cropped in full mode to
\* 5 ids, max_seq_len being 16
C9_Witness ==
    /\ Cropped
    /\ Mode = "full"
    /\ Len(call.row) = 3 /\ call.caption_length = 1
    /\ Len(result.caption) = 5
    /\ parser.max_seq_len = FULL_MAX_SEQ_LEN

\* what a failed construction leaves: no parser object, no batch parser
\* function, no call made on an item, the fault as the end of the run
ConstructionFailed ==
    /\ parser.kind = "none"
    /\ batch_fn = "none"
    /\ ~semparser
    /\ call.fn = "none"
    /\ pc = "raised" /\ result.kind = "raise"

UnknownBatchType ==
    /\ args.cls = "SimpleBatchParser"
    /\ args.batch_type \notin {"shape", "color", "shape_color", "standard"}

\* C10 as stated: an unknown batch_type, or a padding token that the source
\* vocabulary does not hold, makes the construction fail, so that no parser
\* exists, get_batch_parser is never reached and no item is cropped.
C10_InvalidConfigFails ==
    (\/ UnknownBatchType
     \/ /\ args.cls = "FullSequenceBatchParser"
        /\ args.padding_token \notin DOMAIN src_vocab)
    => ConstructionFailed

\* C10 amended: the same, for an unknown batch_type or a padding token held
\* neither by the source vocabulary nor as the start or end token (the lookup
\* is made in the target vocabulary, which has these two added).
C10_InvalidConfigFailsTgt ==
    (\/ UnknownBatchType
     \/ /\ args.cls = "FullSequenceBatchParser"
        /\ args.padding_token \notin DOMAIN src_vocab \cup {SOS_TOKEN, EOS_TOKEN})
    => ConstructionFailed

\* C10 at work: the construction with a padding token in no vocabulary failed
C10_Witness ==
    /\ args.cls = "FullSequenceBatchParser"
    /\ args.padding_token = "<PAD>"
    /\ ConstructionFailed

-----------------------------------------------------------------------------
(* Properties of the evaluation loop. *)

InTest == pc \in {"test_loop", "tested"}

\* the items so far whose inferred caption had zero dimensions
Degenerate == {i \in 1..Len(loop.seen_ndim) : loop.seen_ndim[i] = 0}

\* C11: the items with a zero-dimensional inferred caption are exactly the ones
\* counted as misses; a miss does not end the loop, which can always go on to
\* the next item or to the scores; the accuracy is the mean of corrects alone;
\* and after b_idx items the sizes of corrects, incorrects and misses sum to
\* b_idx, every item having gone to one list.
C11_MissesAndTallies ==
    /\ loop.num_imgs > 0 => InTest
    /\ InTest =>
        /\ Len(loop.seen_ndim) = loop.b_idx
        /\ loop.b_idx <= loop.num_imgs
        /\ Len(loop.misses) = Cardinality(Degenerate)
        /\ Len(loop.corrects) + Len(loop.incorrects) + Len(loop.misses) = loop.b_idx
        /\ pc = "test_loop" => ENABLED (TestItem \/ FinishTest)
        /\ pc = "tested" =>
                /\ loop.b_idx = loop.num_imgs
                /\ loop.avg_acc.den = loop.b_idx - Len(loop.misses) - Len(loop.incorrects)

\* C11 at work: the first item was degenerate and counted as a miss, the loop
\* went on and counted the second item as a wrong caption
C11_Witness ==
    /\ pc = "test_loop"
    /\ loop.seen_ndim = <<0, 1>>
    /\ Len(loop.misses) = 1
    /\ Len(loop.incorrects) = 1

\* C12: corrects holds nothing but 1s, the wrong captions are in incorrects
\* only, and once the scores are computed with at least one correct item the
\* average accuracy is exactly 1 and its standard deviation exactly 0, whatever
\* the numbers of wrong captions and misses.
C12_AccuracyIsOne ==
    InTest =>
        /\ \A i \in 1..Len(loop.corrects) : loop.corrects[i] = 1
        /\ \A i \in 1..Len(loop.incorrects) :
                ~(loop.incorrects[i][2] \subseteq loop.incorrects[i][1])
        /\ (pc = "tested" /\ loop.corrects # <<>>) =>
                /\ loop.avg_acc.den > 0
                /\ loop.avg_acc.num = loop.avg_acc.den
                /\ loop.std_acc.den > 0
                /\ loop.std_acc.num = 0

\* C12 at work: one correct item, one wrong caption and one miss, scored as an
\* accuracy of 1
C12_Witness ==
    /\ pc = "tested"
    /\ Len(loop.corrects) = 1
    /\ Len(loop.incorrects) = 1
    /\ Len(loop.misses) = 1
    /\ loop.avg_acc = [num |-> 1, den |-> 1]
    /\ loop.std_acc.num = 0

====
